---- MODULE Spec2Model ----
(***************************************************************************)
(* A model of the ray tracer: the GPU backend's memory guard, statistics   *)
(* and progressive mode (gpu_renderer.rs), the CPU shading engine and      *)
(* pixel integrator (scene.rs, sphere.rs, plane.rs, vector3d.rs) and the   *)
(* orchestration with its CPU fallback (main.rs).                          *)
(***************************************************************************)
EXTENDS Integers, Sequences, FiniteSets, TLC

VARIABLES
    overflow_checks,   \* build profile: TRUE = overflow panics (debug), FALSE = wraps (release)
    memory_info,       \* GpuRenderer.memory_info
    g_calls,           \* number of top-level calls made on the renderer
    g_call,            \* the arguments of the last top-level call
    g_result,          \* what the last top-level call returned
    g_log,             \* the callbacks and render steps of the last top-level call, in order
    g_hist,            \* memory_mb of every render step that passed the memory guard, in order
    h_pc,              \* Sphere::hit called directly: "idle", "call" or "returned"
    h_in,              \* its arguments: the sphere, the ray, t_min and t_max
    h_out,             \* the Option<HitRecord> it returned
    c_pc,              \* Scene::cast_ray called directly: "idle", "call" or "returned"
    c_in,              \* its arguments: the scene, the ray and the depth
    c_out,             \* what it returned, with the work it took
    c_top,             \* the locals of that invocation: closest_hit and the lights loop's sum
    t_pc,              \* Scene::trace: "idle", "rows" (row tasks running) or "returned"
    t_in,              \* its arguments: the scene, the camera, width, height and samples
    t_call,            \* which call of trace on these arguments this is (1 or 2)
    t_done,            \* the row tasks that have finished, in the order they finished
    t_grid,            \* the grid the call returned
    t_first,           \* the grid of the first call and the seeds its row tasks drew
    m_pc,              \* main: where the process is, "returned" and "panicked" its two ends
    m_args,            \* the flags --gpu and --adaptive
    m_gpu,             \* main_gpu: frame_index, the frames pushed and written, the GpuError met
    m_cpu,             \* main_cpu_with_settings: its arguments, the frames pushed and written
    m_gif              \* the animation that the run saved

gpu_vars == <<overflow_checks, memory_info, g_calls, g_call, g_result, g_log, g_hist>>

hit_vars == <<h_pc, h_in, h_out>>

cast_vars == <<c_pc, c_in, c_out, c_top>>

trace_vars == <<t_pc, t_in, t_call, t_done, t_grid, t_first>>

main_vars == <<m_pc, m_args, m_gpu, m_cpu, m_gif>>

vars == <<gpu_vars, hit_vars, cast_vars, trace_vars, main_vars>>

\* a component that the specification at hand does not run
NoHitCall == [sphere |-> "none"]

HitIdle == h_pc = "idle" /\ h_in = NoHitCall /\ h_out = NoHitCall

NoCast == [scene |-> "none"]

CastIdle == c_pc = "idle" /\ c_in = NoCast /\ c_out = NoCast /\ c_top = NoCast

NoTrace == [scene |-> "none"]

NoGrid == [kind |-> "none"]

TraceIdle ==
    /\ t_pc = "idle"
    /\ t_in = NoTrace
    /\ t_call = 0
    /\ t_done = <<>>
    /\ t_grid = NoGrid
    /\ t_first = NoGrid

NoArgs == [use_gpu |-> FALSE, use_adaptive |-> FALSE]

NoGpuRun == [frame_index |-> 0, frames |-> 0, written |-> 0, error |-> "none"]

NoCpuRun == [caller |-> "none"]

NoGif == [file |-> "none"]

MainIdle ==
    /\ m_pc = "idle"
    /\ m_args = NoArgs
    /\ m_gpu = NoGpuRun
    /\ m_cpu = NoCpuRun
    /\ m_gif = NoGif

----------------------------------------------------------------------------
(* Unsigned integers wider than TLC's own are little-endian sequences of   *)
(* base-2^8 digits without high zero digits; <<>> is zero.                 *)

Radix == 2^8

Min(a, b) == IF a <= b THEN a ELSE b

Max(a, b) == IF a >= b THEN a ELSE b

RECURSIVE Norm(_)
Norm(a) ==
    IF a = <<>> THEN <<>>
    ELSE IF a[Len(a)] = 0 THEN Norm(SubSeq(a, 1, Len(a) - 1))
    ELSE a

RECURSIVE Big(_)
Big(n) == IF n = 0 THEN <<>> ELSE <<n % Radix>> \o Big(n \div Radix)

Digit(a, i) == IF i <= Len(a) THEN a[i] ELSE 0

Rest(a) == IF a = <<>> THEN <<>> ELSE Tail(a)

RECURSIVE AddCarry(_, _, _)
AddCarry(a, b, c) ==
    IF a = <<>> /\ b = <<>> THEN Big(c)
    ELSE LET s == Digit(a, 1) + Digit(b, 1) + c
         IN  <<s % Radix>> \o AddCarry(Rest(a), Rest(b), s \div Radix)

BigAdd(a, b) == Norm(AddCarry(a, b, 0))

RECURSIVE MulDigit(_, _, _)
MulDigit(a, d, c) ==
    IF a = <<>> THEN Big(c)
    ELSE LET p == a[1] * d + c
         IN  <<p % Radix>> \o MulDigit(Tail(a), d, p \div Radix)

RECURSIVE MulRaw(_, _)
MulRaw(a, b) ==
    IF b = <<>> THEN <<>>
    ELSE AddCarry(MulDigit(a, b[1], 0), <<0>> \o MulRaw(a, Tail(b)), 0)

BigMul(a, b) == Norm(MulRaw(a, b))

\* a \div d for a digit-sized divisor d, most significant digit first
RECURSIVE DivDigit(_, _, _)
DivDigit(a, d, r) ==
    IF a = <<>> THEN <<>>
    ELSE LET n == Len(a)
             cur == r * Radix + a[n]
         IN  DivDigit(SubSeq(a, 1, n - 1), d, cur % d) \o <<cur \div d>>

BigDiv(a, d) == Norm(DivDigit(a, d, 0))

RECURSIVE BigLess(_, _)
BigLess(a, b) ==
    IF Len(a) # Len(b) THEN Len(a) < Len(b)
    ELSE IF a = <<>> THEN FALSE
    ELSE LET n == Len(a)
         IN  IF a[n] # b[n] THEN a[n] < b[n]
             ELSE BigLess(SubSeq(a, 1, n - 1), SubSeq(b, 1, n - 1))

BigMax(a, b) == IF BigLess(a, b) THEN b ELSE a

\* the low `bytes` digits of a: the value modulo 2^(8*bytes)
Wrap(a, bytes) == Norm(SubSeq(a, 1, Min(bytes, Len(a))))

Fits(a, bytes) == Len(a) <= bytes

----------------------------------------------------------------------------
(* gpu_renderer.rs: the memory guard, the statistics and progressive mode. *)
(* An f64 number of megabytes m is held as the integer m * 2^20: the code  *)
(* obtains every such value by dividing a byte count below 2^53 by 2^20,   *)
(* which is exact in f64, and only compares and stores them.               *)

U32_BYTES == 4

MAX_MEMORY_MB == 2048

PIXEL_BYTES == 16

WORKGROUP_SIZE == 8

Mb(n) == BigMul(Big(n), Big(2^20))

size_of_GpuCamera == 4 * (3 + 1 + 3 + 1 + 3 + 1 + 1 + 1 + 1 + 1)

size_of_GpuMaterial == 4 * (3 + 1 + 1 + 1 + 1 + 1)

size_of_GpuSphere == 4 * (3 + 1) + size_of_GpuMaterial

size_of_GpuPlane == 4 * (3 + 1 + 3 + 1) + size_of_GpuMaterial

size_of_GpuLight == 4 * (3 + 1)

size_of_RenderParams == 4 * (1 + 1 + 1 + 1 + 3 + 1 + 1 + 1 + 1 + 1)

\* a * b on u32: the wrapped product and whether the true product overflowed
MulU32(a, b) ==
    LET p == BigMul(a, b)
    IN  [value |-> Wrap(p, U32_BYTES), overflow |-> ~Fits(p, U32_BYTES)]

AddU32(a, b) ==
    LET s == BigAdd(a, b)
    IN  [value |-> Wrap(s, U32_BYTES), overflow |-> ~Fits(s, U32_BYTES)]

\* (width * height * 16) as u64, as written at lines 248, 409, 416 and 468
output_size(width, height) ==
    LET wh == MulU32(width, height)
        sz == MulU32(wh.value, Big(PIXEL_BYTES))
    IN  [value |-> sz.value, overflow |-> wh.overflow \/ sz.overflow]

calculate_memory_usage(width, height, num_spheres, num_planes, num_lights) ==
    LET out          == output_size(width, height).value
        staging_size == out
        params_size  == Big(size_of_RenderParams)
        camera_size  == Big(size_of_GpuCamera)
        spheres_size == Big(num_spheres * size_of_GpuSphere)
        planes_size  == Big(num_planes * size_of_GpuPlane)
        lights_size  == Big(num_lights * size_of_GpuLight)
        total_bytes  == BigAdd(out, BigAdd(staging_size, BigAdd(params_size,
                          BigAdd(camera_size, BigAdd(spheres_size,
                            BigAdd(planes_size, lights_size))))))
    IN  total_bytes

MAX_MEMORY == Mb(MAX_MEMORY_MB)

exceeds_budget(memory_mb) == BigLess(MAX_MEMORY, memory_mb)

\* the peak overwritten by every call
update_memory_info_peak_overwritten(self, memory_mb) ==
    [total_allocated_mb |-> memory_mb, peak_allocated_mb |-> memory_mb]

update_memory_info(self, memory_mb) ==
    [total_allocated_mb |-> memory_mb,
     peak_allocated_mb  |-> IF BigLess(self.peak_allocated_mb, memory_mb)
                            THEN memory_mb ELSE self.peak_allocated_mb]

\* (n + 7) / 8 on u32, as written at line 465
workgroups(n) ==
    LET s == AddU32(n, Big(WORKGROUP_SIZE - 1))
    IN  [value |-> BigDiv(s.value, WORKGROUP_SIZE), overflow |-> s.overflow]

NoImage == [kind |-> "none"]

BlackImage(width, height) ==
    [kind |-> "black", width |-> width, height |-> height, samples |-> 0]

\* the pixels read back from the dispatch made with `samples`
RenderedImage(width, height, samples) ==
    [kind |-> "rendered", width |-> width, height |-> height, samples |-> samples]

\* no dispatch_workgroups call was reached
NoGroups == <<>>

RenderReturn(self, outcome, requested_mb, image, passed, buffers, dispatches, groups) ==
    [memory_info |-> self, outcome |-> outcome, requested_mb |-> requested_mb,
     image |-> image, passed |-> passed, buffers |-> buffers,
     dispatches |-> dispatches, groups |-> groups]

\* a guard that records the requirement before it rejects the call
render_recording_rejected(self, checked, width, height, samples, num_spheres, num_planes, num_lights) ==
    LET out       == output_size(width, height)
        memory_mb == calculate_memory_usage(width, height, num_spheres,
                                            num_planes, num_lights)
        updated   == update_memory_info(self, memory_mb)
        gx        == workgroups(width)
        gy        == workgroups(height)
    IN  IF checked /\ out.overflow
        THEN RenderReturn(self, "Panic", <<>>, NoImage, FALSE, 0, 0, NoGroups)
        ELSE IF exceeds_budget(memory_mb)
        THEN RenderReturn(updated, "OutOfMemory", memory_mb, NoImage, FALSE, 0, 0,
                          NoGroups)
        ELSE IF checked /\ (gx.overflow \/ gy.overflow)
        THEN RenderReturn(updated, "Panic", <<>>, NoImage, TRUE, 7, 0, NoGroups)
        ELSE IF out.overflow
        THEN RenderReturn(updated, "Panic", <<>>, NoImage, TRUE, 7, 1,
                          <<gx.value, gy.value>>)
        ELSE RenderReturn(updated, "Ok", <<>>,
                          RenderedImage(width, height, samples), TRUE, 7, 1,
                          <<gx.value, gy.value>>)

\* a guard that counts the last call's allocation against the budget
render_throttled(self, checked, width, height, samples, num_spheres, num_planes, num_lights) ==
    LET out       == output_size(width, height)
        memory_mb == calculate_memory_usage(width, height, num_spheres,
                                            num_planes, num_lights)
        updated   == update_memory_info(self, memory_mb)
        gx        == workgroups(width)
        gy        == workgroups(height)
    IN  IF checked /\ out.overflow
        THEN RenderReturn(self, "Panic", <<>>, NoImage, FALSE, 0, 0, NoGroups)
        ELSE IF exceeds_budget(BigAdd(memory_mb, self.total_allocated_mb))
        THEN RenderReturn(self, "OutOfMemory", memory_mb, NoImage, FALSE, 0, 0,
                          NoGroups)
        ELSE IF checked /\ (gx.overflow \/ gy.overflow)
        THEN RenderReturn(updated, "Panic", <<>>, NoImage, TRUE, 7, 0, NoGroups)
        ELSE IF out.overflow
        THEN RenderReturn(updated, "Panic", <<>>, NoImage, TRUE, 7, 1,
                          <<gx.value, gy.value>>)
        ELSE RenderReturn(updated, "Ok", <<>>,
                          RenderedImage(width, height, samples), TRUE, 7, 1,
                          <<gx.value, gy.value>>)

\* GpuRenderer::render. `checked` is the build's overflow-checks setting.
render(self, checked, width, height, samples, num_spheres, num_planes, num_lights) ==
    LET out       == output_size(width, height)
        memory_mb == calculate_memory_usage(width, height, num_spheres,
                                            num_planes, num_lights)
        updated   == update_memory_info(self, memory_mb)
        gx        == workgroups(width)
        gy        == workgroups(height)
    IN  IF checked /\ out.overflow
        THEN RenderReturn(self, "Panic", <<>>, NoImage, FALSE, 0, 0, NoGroups)
        ELSE IF exceeds_budget(memory_mb)
        THEN RenderReturn(self, "OutOfMemory", memory_mb, NoImage, FALSE, 0, 0,
                          NoGroups)
        ELSE IF checked /\ (gx.overflow \/ gy.overflow)
        THEN RenderReturn(updated, "Panic", <<>>, NoImage, TRUE, 7, 0, NoGroups)
        ELSE IF out.overflow
        \* the staging buffer holds fewer than width * height pixels: the
        \* read-back loop indexes past its end
        THEN RenderReturn(updated, "Panic", <<>>, NoImage, TRUE, 7, 1,
                          <<gx.value, gy.value>>)
        ELSE RenderReturn(updated, "Ok", <<>>,
                          RenderedImage(width, height, samples), TRUE, 7, 1,
                          <<gx.value, gy.value>>)

CallbackEvent(samples, target_samples) ==
    [ev |-> "callback", samples |-> samples, target |-> target_samples]

RenderEvent(samples, r) ==
    [ev |-> "render", samples |-> samples, outcome |-> r.outcome,
     buffers |-> r.buffers, dispatches |-> r.dispatches, groups |-> r.groups]

sample_steps(target_samples) == <<1, 2, 4, 8, target_samples>>

\* whether the loop of render_adaptive leaves at this step (line 513)
step_stops(samples, target_samples) == samples > target_samples

\* a loop that goes on to the next step after a step's error
RECURSIVE adaptive_loop_past_errors(_, _, _, _)
adaptive_loop_past_errors(st, checked, a, i) ==
    LET steps == sample_steps(a.target_samples)
        step(samples, r) ==
          LET log == st.log \o <<CallbackEvent(samples, a.target_samples),
                                 RenderEvent(samples, r)>>
              hist == IF r.passed
                      THEN Append(st.hist, r.memory_info.total_allocated_mb)
                      ELSE st.hist
          IN  IF r.outcome = "Panic"
              THEN [memory_info |-> r.memory_info, outcome |-> r.outcome,
                    requested_mb |-> r.requested_mb, image |-> NoImage,
                    log |-> log, hist |-> hist]
              ELSE adaptive_loop_past_errors(
                       [memory_info |-> r.memory_info,
                        final_image |-> IF r.outcome = "Ok" THEN r.image
                                        ELSE st.final_image,
                        log |-> log, hist |-> hist],
                       checked, a, i + 1)
    IN  IF i > Len(steps) \/ step_stops(steps[i], a.target_samples)
        THEN [memory_info |-> st.memory_info, outcome |-> "Ok",
              requested_mb |-> <<>>, image |-> st.final_image,
              log |-> st.log, hist |-> st.hist]
        ELSE step(steps[i],
                  render(st.memory_info, checked, a.width, a.height, steps[i],
                         a.num_spheres, a.num_planes, a.num_lights))

\* the loop of GpuRenderer::render_adaptive from step i on; st holds the
\* renderer's memory_info, final_image, and the events and guard-passing
\* requirements so far
RECURSIVE adaptive_loop(_, _, _, _)
adaptive_loop(st, checked, a, i) ==
    LET steps == sample_steps(a.target_samples)
        step(samples, r) ==
          LET log == st.log \o <<CallbackEvent(samples, a.target_samples),
                                 RenderEvent(samples, r)>>
              hist == IF r.passed
                      THEN Append(st.hist, r.memory_info.total_allocated_mb)
                      ELSE st.hist
          IN  IF r.outcome # "Ok"
              THEN [memory_info |-> r.memory_info, outcome |-> r.outcome,
                    requested_mb |-> r.requested_mb, image |-> NoImage,
                    log |-> log, hist |-> hist]
              ELSE adaptive_loop([memory_info |-> r.memory_info,
                                  final_image |-> r.image,
                                  log |-> log, hist |-> hist],
                                 checked, a, i + 1)
    IN  IF i > Len(steps) \/ step_stops(steps[i], a.target_samples)
        THEN [memory_info |-> st.memory_info, outcome |-> "Ok",
              requested_mb |-> <<>>, image |-> st.final_image,
              log |-> st.log, hist |-> st.hist]
        ELSE step(steps[i],
                  render(st.memory_info, checked, a.width, a.height, steps[i],
                         a.num_spheres, a.num_planes, a.num_lights))

render_adaptive(self, checked, a) ==
    adaptive_loop([memory_info |-> self,
                   final_image |-> BlackImage(a.width, a.height),
                   log |-> <<>>, hist |-> <<>>], checked, a, 1)

----------------------------------------------------------------------------
(* The renderer driven by a caller: any sequence of render and             *)
(* render_adaptive calls, until one of them panics.                        *)

MaxCalls == 2

U32_MAX == <<255, 255, 255, 255>>

GpuDims ==
    { <<Big(1920), Big(1080)>>, <<Big(8192), Big(6144)>>, <<Big(8192), Big(16384)>>,
      <<Big(65536), Big(65536)>>, <<Big(100000), Big(100000)>>,
      <<U32_MAX, Big(0)>>,
      \* 4294967292 x 67108863: the u32 product times 16 wraps to 64
      <<<<252, 255, 255, 255>>, <<255, 255, 255, 3>>>> }

GpuCounts == { <<0, 0, 0>>, <<4, 1, 2>> }

RenderSamples == {16}

TargetSamples == {0, 1, 3, 8, 16}

NoCall ==
    [op |-> "none", width |-> <<>>, height |-> <<>>, samples |-> 0,
     target_samples |-> 0, num_spheres |-> 0, num_planes |-> 0, num_lights |-> 0]

NoResult == [outcome |-> "none", requested_mb |-> <<>>, image |-> NoImage]

GpuInit ==
    /\ overflow_checks \in BOOLEAN
    /\ memory_info = [total_allocated_mb |-> <<>>, peak_allocated_mb |-> <<>>]
    /\ g_calls = 0
    /\ g_call = NoCall
    /\ g_result = NoResult
    /\ g_log = <<>>
    /\ g_hist = <<>>
    /\ HitIdle
    /\ CastIdle
    /\ TraceIdle
    /\ MainIdle

\* the renderer of a run that never calls it
GpuIdle ==
    /\ overflow_checks = FALSE
    /\ memory_info = [total_allocated_mb |-> <<>>, peak_allocated_mb |-> <<>>]
    /\ g_calls = 0
    /\ g_call = NoCall
    /\ g_result = NoResult
    /\ g_log = <<>>
    /\ g_hist = <<>>

GpuReady == g_result.outcome # "Panic" /\ g_calls < MaxCalls

Render ==
    /\ GpuReady
    /\ \E d \in GpuDims, c \in GpuCounts, samples \in RenderSamples :
         \E r \in {render(memory_info, overflow_checks, d[1], d[2], samples,
                         c[1], c[2], c[3])} :
             /\ memory_info' = r.memory_info
             /\ g_call' = [op |-> "render", width |-> d[1], height |-> d[2],
                           samples |-> samples, target_samples |-> 0,
                           num_spheres |-> c[1], num_planes |-> c[2],
                           num_lights |-> c[3]]
             /\ g_result' = [outcome |-> r.outcome, requested_mb |-> r.requested_mb,
                             image |-> r.image]
             /\ g_log' = <<RenderEvent(samples, r)>>
             /\ g_hist' = IF r.passed
                          THEN Append(g_hist, r.memory_info.total_allocated_mb)
                          ELSE g_hist
    /\ g_calls' = g_calls + 1
    /\ UNCHANGED <<overflow_checks, hit_vars, cast_vars, trace_vars, main_vars>>

RenderAdaptive ==
    /\ GpuReady
    /\ \E d \in GpuDims, c \in GpuCounts, target \in TargetSamples :
         LET a == [op |-> "render_adaptive", width |-> d[1], height |-> d[2],
                   samples |-> 0, target_samples |-> target,
                   num_spheres |-> c[1], num_planes |-> c[2], num_lights |-> c[3]]
         IN \E r \in {render_adaptive(memory_info, overflow_checks, a)} :
             /\ memory_info' = r.memory_info
             /\ g_call' = a
             /\ g_result' = [outcome |-> r.outcome, requested_mb |-> r.requested_mb,
                             image |-> r.image]
             /\ g_log' = r.log
             /\ g_hist' = g_hist \o r.hist
    /\ g_calls' = g_calls + 1
    /\ UNCHANGED <<overflow_checks, hit_vars, cast_vars, trace_vars, main_vars>>

GpuNext == Render \/ RenderAdaptive

SpecGpu == GpuInit /\ [][GpuNext]_vars

----------------------------------------------------------------------------
(* The CPU path. An f64 value v is held as the integer nearest v * Scale   *)
(* (fixed point, five decimal places); every product, quotient and square  *)
(* root is rounded to that grid where f64 rounds to its own. Products are  *)
(* formed limb by limb and quotients by long division, so that no          *)
(* intermediate value leaves the 32-bit integers. Non-finite values (the   *)
(* NaN of a zero-length normalize) have no counterpart: the scenes below   *)
(* have none.                                                              *)

Scale == 10^5

Limb == 10^3

Abs(v) == IF v < 0 THEN -v ELSE v

Signed(neg, v) == IF neg THEN -v ELSE v

\* n / d rounded to the nearest integer, halves away from zero
RoundDiv(n, d) ==
    LET q == (Abs(n) + Abs(d) \div 2) \div Abs(d)
    IN  Signed((n < 0) # (d < 0), q)

\* let name = v, for the names of F
Let(v, F(_)) == F(v)

Let2(u, v, F(_, _)) == F(u, v)

Let3(u, v, w, F(_, _, _)) == F(u, v, w)

\* the product of the limbs xh, xl of one magnitude and yh, yl of another
MulLimbs(xh, xl, yh, yl) ==
    ((Limb * Limb) \div Scale) * xh * yh
    + RoundDiv(xh * yl + xl * yh + RoundDiv(xl * yl, Limb), Scale \div Limb)

MulAbs(x, y) == MulLimbs(x \div Limb, x % Limb, y \div Limb, y % Limb)

\* a * b of two f64 values
FMul(a, b) == Signed((a < 0) # (b < 0), MulAbs(Abs(a), Abs(b)))

\* f64::INFINITY: above every value the scenes produce
INFINITY == 2000000000

\* the quotient r / d to the decimal places s has left, behind the quotient q
RECURSIVE LongDiv(_, _, _, _)
LongDiv(q, r, d, s) ==
    IF s = 1 THEN q + (IF 2 * r >= d THEN 1 ELSE 0)
    ELSE LongDiv(10 * q + (10 * r) \div d, (10 * r) % d, d, s \div 10)

\* a / b of two f64 values, b # 0; a quotient beyond INFINITY is INFINITY
FDiv(a, b) ==
    LET x == Abs(a)
        y == Abs(b)
        q == x \div y
    IN  Signed((a < 0) # (b < 0),
               IF q >= INFINITY \div Scale THEN INFINITY
               ELSE LongDiv(q, x % y, y, Scale))

RECURSIVE SqrtIter(_, _)
SqrtIter(n, x) ==
    LET y == (x + n \div x) \div 2
    IN  IF y >= x THEN x ELSE SqrtIter(n, y)

\* the integer square root of n >= 0
ISqrt(n) == IF n = 0 THEN 0 ELSE SqrtIter(n, n \div Limb + 2 * Limb)

\* one Newton step towards the square root of a from the estimate x
SqrtStep(a, x) == (x + FDiv(a, x)) \div 2

\* a.sqrt() of an f64 value a >= 0
FSqrt(a) ==
    IF a <= INFINITY \div Scale THEN ISqrt(a * Scale)
    ELSE SqrtStep(a, SqrtStep(a, ISqrt(a \div ((Limb * Limb) \div Scale)) * Limb))

\* b.powf(e) for a whole exponent e >= 0, by repeated squaring
RECURSIVE FPow(_, _)
FPow(b, e) ==
    IF e = 0 THEN Scale
    ELSE IF e % 2 = 1 THEN FMul(b, FPow(b, e - 1))
    ELSE LET h == FPow(b, e \div 2) IN FMul(h, h)

FMax(a, b) == IF a >= b THEN a ELSE b

FClamp(v, lo, hi) == IF v < lo THEN lo ELSE IF v > hi THEN hi ELSE v

\* vector3d.rs: a Vector3D is <<x, y, z>>
Vector3D(x, y, z) == <<x, y, z>>

dot(a, b) == FMul(a[1], b[1]) + FMul(a[2], b[2]) + FMul(a[3], b[3])

cross(a, b) ==
    <<FMul(a[2], b[3]) - FMul(a[3], b[2]),
      FMul(a[3], b[1]) - FMul(a[1], b[3]),
      FMul(a[1], b[2]) - FMul(a[2], b[1])>>

magnitude_squared(a) == dot(a, a)

magnitude(a) == FSqrt(dot(a, a))

vadd(a, b) == <<a[1] + b[1], a[2] + b[2], a[3] + b[3]>>

vsub(a, b) == <<a[1] - b[1], a[2] - b[2], a[3] - b[3]>>

vmul(a, k) == <<FMul(a[1], k), FMul(a[2], k), FMul(a[3], k)>>

normalize(a) == vmul(a, FDiv(Scale, magnitude(a)))

\* ray.rs
Ray(origin, direction) == [origin |-> origin, direction |-> direction]

at(ray, t) == vadd(ray.origin, vmul(ray.direction, t))

\* sphere.rs: a Color is <<r, g, b>>
Black == <<0, 0, 0>>

cadd(a, b) == <<a[1] + b[1], a[2] + b[2], a[3] + b[3]>>

cmul(a, k) == <<FMul(a[1], k), FMul(a[2], k), FMul(a[3], k)>>

Material(color, diffuse, specular, shininess, reflectivity) ==
    [color |-> color, diffuse |-> diffuse, specular |-> specular,
     shininess |-> shininess, reflectivity |-> reflectivity]

Sphere(center, radius, material) ==
    [kind |-> "sphere", center |-> center, radius |-> radius, material |-> material]

\* Plane::new normalizes the normal
Plane(point, normal, material) ==
    [kind |-> "plane", point |-> point, normal |-> normalize(normal),
     material |-> material]

\* hittable.rs
NoHit == [hit |-> FALSE]

HitRecord(point, normal, t, material) ==
    [hit |-> TRUE, point |-> point, normal |-> normal, t |-> t,
     material |-> material]

out_of_range(t, t_min, t_max) == t < t_min \/ t > t_max

\* the record of Sphere::hit for the root it settled on
sphere_record(self, ray, root) ==
    Let(at(ray, root), LAMBDA point :
        HitRecord(point,
                  vmul(vsub(point, self.center), FDiv(Scale, self.radius)),
                  root, self.material))

\* the two roots of Sphere::hit (lines 67-81): the discriminant, and behind a
\* discriminant that is not negative the root tried first and the root
\* tried second
sphere_roots(self, ray) ==
    Let3(dot(ray.direction, ray.direction),
         dot(vsub(ray.origin, self.center), ray.direction),
         magnitude_squared(vsub(ray.origin, self.center))
             - FMul(self.radius, self.radius),
         LAMBDA a, half_b, c :
    Let(FMul(half_b, half_b) - FMul(a, c), LAMBDA discriminant :
        IF discriminant < 0 THEN [discriminant |-> discriminant]
        ELSE [discriminant |-> discriminant,
              first  |-> FDiv(-half_b - FSqrt(discriminant), a),
              second |-> FDiv(-half_b + FSqrt(discriminant), a)]))

sphere_hit_larger_root_first(self, ray, t_min, t_max) ==
    Let(sphere_roots(self, ray), LAMBDA q :
        IF q.discriminant < 0 THEN NoHit
        ELSE IF ~out_of_range(q.second, t_min, t_max)
        THEN sphere_record(self, ray, q.second)
        ELSE IF ~out_of_range(q.first, t_min, t_max)
        THEN sphere_record(self, ray, q.first)
        ELSE NoHit)

\* Sphere::hit
sphere_hit(self, ray, t_min, t_max) ==
    Let3(dot(ray.direction, ray.direction),
         dot(vsub(ray.origin, self.center), ray.direction),
         magnitude_squared(vsub(ray.origin, self.center))
             - FMul(self.radius, self.radius),
         LAMBDA a, half_b, c :
    Let(FMul(half_b, half_b) - FMul(a, c), LAMBDA discriminant :
        IF discriminant < 0 THEN NoHit
        ELSE
    Let(FSqrt(discriminant), LAMBDA sqrtd :
    Let2(FDiv(-half_b - sqrtd, a), FDiv(-half_b + sqrtd, a), LAMBDA root1, root2 :
        IF ~out_of_range(root1, t_min, t_max) THEN sphere_record(self, ray, root1)
        ELSE IF ~out_of_range(root2, t_min, t_max) THEN sphere_record(self, ray, root2)
        ELSE NoHit))))

\* |denom| < 1e-8: on the fixed-point grid only 0 is that small
PARALLEL_EPS == 0

\* Plane::hit
plane_hit(self, ray, t_min, t_max) ==
    Let(dot(self.normal, ray.direction), LAMBDA denom :
        IF Abs(denom) <= PARALLEL_EPS THEN NoHit
        ELSE
    Let(FDiv(dot(vsub(self.point, ray.origin), self.normal), denom), LAMBDA t :
        IF out_of_range(t, t_min, t_max) THEN NoHit
        ELSE HitRecord(at(ray, t), self.normal, t, self.material)))

\* Hittable::hit, dispatched on the primitive's type
hit(object, ray, t_min, t_max) ==
    IF object.kind = "sphere" THEN sphere_hit(object, ray, t_min, t_max)
    ELSE plane_hit(object, ray, t_min, t_max)

\* scene.rs
EPSILON == Scale \div 1000

MAX_DEPTH == 3

Light(position, intensity) == [position |-> position, intensity |-> intensity]

Scene(background_color, objects, lights) ==
    [background_color |-> background_color, objects |-> objects, lights |-> lights]

\* the distance from point to the light (lines 29-31)
light_distance(point, light_position) ==
    FSqrt(magnitude_squared(vsub(light_position, point)))

\* the shadow ray from point towards the light (lines 32-34)
shadow_ray_to(point, light_position) ==
    Let(vmul(vsub(light_position, point),
             FDiv(Scale, light_distance(point, light_position))),
        LAMBDA dir_normalized :
            Ray(vadd(point, vmul(dir_normalized, EPSILON)), dir_normalized))

\* a shadow test that looks at the first primitive only
shadow_scan_first_only(objects, shadow_ray_, t_max, i, tests) ==
    IF i > Len(objects) THEN [shadow |-> FALSE, tests |-> tests]
    ELSE [shadow |-> hit(objects[i], shadow_ray_, EPSILON, t_max).hit,
          tests |-> tests + 1]

\* the loop of Scene::is_in_shadow from object i on; tests counts the hit calls
RECURSIVE shadow_scan(_, _, _, _, _)
shadow_scan(objects, shadow_ray, t_max, i, tests) ==
    IF i > Len(objects) THEN [shadow |-> FALSE, tests |-> tests]
    ELSE IF hit(objects[i], shadow_ray, EPSILON, t_max).hit
    THEN [shadow |-> TRUE, tests |-> tests + 1]
    ELSE shadow_scan(objects, shadow_ray, t_max, i + 1, tests + 1)

\* Scene::is_in_shadow
is_in_shadow(self, point, light_position) ==
    Let(vsub(light_position, point), LAMBDA direction :
    Let(FSqrt(magnitude_squared(direction)), LAMBDA distance :
    Let(vmul(direction, FDiv(Scale, distance)), LAMBDA dir_normalized :
        shadow_scan(self.objects,
                    Ray(vadd(point, vmul(dir_normalized, EPSILON)), dir_normalized),
                    distance - EPSILON, 1, 0))))

\* the loop keeping the last primitive hit, each tested up to INFINITY
RECURSIVE closest_scan_last_hit(_, _, _, _, _)
closest_scan_last_hit(objects, ray, i, closest_hit, closest_t) ==
    IF i > Len(objects) THEN closest_hit
    ELSE Let(hit(objects[i], ray, EPSILON, INFINITY), LAMBDA h :
             IF h.hit THEN closest_scan_last_hit(objects, ray, i + 1, h, h.t)
             ELSE closest_scan_last_hit(objects, ray, i + 1, closest_hit, closest_t))

\* the closest-hit loop of Scene::cast_ray from object i on
RECURSIVE closest_scan(_, _, _, _, _)
closest_scan(objects, ray, i, closest_hit, closest_t) ==
    IF i > Len(objects) THEN closest_hit
    ELSE Let(hit(objects[i], ray, EPSILON, closest_t), LAMBDA h :
             IF h.hit THEN closest_scan(objects, ray, i + 1, h, h.t)
             ELSE closest_scan(objects, ray, i + 1, closest_hit, closest_t))

reflect(incident, normal) ==
    vsub(incident, vmul(normal, 2 * dot(incident, normal)))

\* the diffuse and the specular term of one light
phong(h, light, light_dir, halfway_dir) ==
    cadd(cmul(h.material.color,
              FMul(FMul(h.material.diffuse, FMax(dot(light_dir, h.normal), 0)),
                   light.intensity)),
         cmul(<<Scale, Scale, Scale>>,
              FMul(FMul(h.material.specular,
                        FPow(FMax(dot(halfway_dir, h.normal), 0),
                             h.material.shininess)),
                   light.intensity)))

\* what one light adds to the color at a hit (the body of the lights loop)
light_term(h, ray, light) ==
    Let2(normalize(vsub(light.position, h.point)),
         normalize(vsub(ray.origin, h.point)),
         LAMBDA light_dir, view_dir :
             phong(h, light, light_dir, normalize(vadd(light_dir, view_dir))))

\* the sum after light i, given its shadow test sh
lit_by(self, h, ray, i, acc, sh) ==
    [color |-> IF sh.shadow THEN acc.color
               ELSE cadd(acc.color, light_term(h, ray, self.lights[i])),
     tests |-> acc.tests + sh.tests,
     lit   |-> IF sh.shadow THEN acc.lit ELSE Append(acc.lit, i)]

\* the lights loop of Scene::cast_ray from light i on; acc holds the color,
\* the count of shadow-ray hit calls so far and the lights that contributed
RECURSIVE lights_loop(_, _, _, _, _)
lights_loop(self, h, ray, i, acc) ==
    IF i > Len(self.lights) THEN acc
    ELSE lights_loop(self, h, ray, i + 1,
             lit_by(self, h, ray, i, acc,
                    is_in_shadow(self, h.point, self.lights[i].position)))

\* the terminal case of Scene::cast_ray (line 46)
depth_exhausted_below_zero(depth) == depth < 0

depth_exhausted(depth) == depth <= 0

\* a color with the work it took: the cast_ray invocations, the closest-hit
\* scans, the hit calls and the lights visited
CastReturn(color, calls, scans, tests, lights) ==
    [color |-> color, calls |-> calls, scans |-> scans, tests |-> tests,
     lights |-> lights]

\* the ray that Scene::cast_ray sends on from the hit h (lines 96-97)
reflect_ray(h, ray) ==
    Ray(vadd(h.point, vmul(h.normal, EPSILON)), reflect(ray.direction, h.normal))

\* the reflected color clamped to [0, 1] before it is weighted
with_reflection_clamped(h, lit, n, m, reflected) ==
    CastReturn(cadd(lit.color,
                    cmul(<<FClamp(reflected.color[1], 0, Scale),
                           FClamp(reflected.color[2], 0, Scale),
                           FClamp(reflected.color[3], 0, Scale)>>,
                         h.material.reflectivity)),
               1 + reflected.calls, 1 + reflected.scans,
               n + lit.tests + reflected.tests, m + reflected.lights)

\* the reflected color added without its weight
with_reflection_unweighted(h, lit, n, m, reflected) ==
    CastReturn(cadd(lit.color, reflected.color),
               1 + reflected.calls, 1 + reflected.scans,
               n + lit.tests + reflected.tests, m + reflected.lights)

\* color + reflected_color * reflectivity, with the work of both
with_reflection(h, lit, n, m, reflected) ==
    CastReturn(cadd(lit.color, cmul(reflected.color, h.material.reflectivity)),
               1 + reflected.calls, 1 + reflected.scans,
               n + lit.tests + reflected.tests, m + reflected.lights)

RECURSIVE cast_ray(_, _, _)

\* the recursive call made two levels down
shade_two_levels_down(self, ray, depth, h, lit) ==
    IF h.material.reflectivity > 0
    THEN with_reflection(h, lit, Len(self.objects), Len(self.lights),
             cast_ray(self, reflect_ray(h, ray), depth - 2))
    ELSE CastReturn(lit.color, 1, 1, Len(self.objects) + lit.tests,
                    Len(self.lights))

\* Scene::cast_ray from the closest hit h on
shade(self, ray, depth, h, lit) ==
    IF h.material.reflectivity > 0
    THEN with_reflection(h, lit, Len(self.objects), Len(self.lights),
             cast_ray(self,
                      Ray(vadd(h.point, vmul(h.normal, EPSILON)),
                          reflect(ray.direction, h.normal)),
                      depth - 1))
    ELSE CastReturn(lit.color, 1, 1, Len(self.objects) + lit.tests,
                    Len(self.lights))

\* Scene::cast_ray
cast_ray(self, ray, depth) ==
    IF depth_exhausted(depth) THEN CastReturn(Black, 1, 0, 0, 0)
    ELSE Let(closest_scan(self.objects, ray, 1, NoHit, INFINITY), LAMBDA h :
             IF ~h.hit
             THEN CastReturn(self.background_color, 1, 1, Len(self.objects), 0)
             ELSE shade(self, ray, depth, h,
                        lights_loop(self, h, ray, 1,
                            [color |-> Black, tests |-> 0, lit |-> <<>>])))

\* the locals of one invocation of Scene::cast_ray when it leaves its loops:
\* closest_hit, and behind a hit the color, the shadow tests and the
\* contributing lights of the lights loop
cast_ray_locals(self, ray, depth) ==
    IF depth_exhausted(depth) THEN [scanned |-> FALSE]
    ELSE Let(closest_scan(self.objects, ray, 1, NoHit, INFINITY), LAMBDA h :
             IF ~h.hit THEN [scanned |-> TRUE, closest_hit |-> h]
             ELSE [scanned |-> TRUE, closest_hit |-> h,
                   local |-> lights_loop(self, h, ray, 1,
                                 [color |-> Black, tests |-> 0, lit |-> <<>>])])

Camera(position, target, fov, aspect_ratio) ==
    [position |-> position, target |-> target, up |-> <<0, Scale, 0>>,
     fov |-> fov, aspect_ratio |-> aspect_ratio]

\* tan(fov.to_radians() / 2) for the fields of view the model uses
tan_half_fov(fov) ==
    CASE fov = 90 -> Scale
      [] fov = 60 -> 57735 * (Scale \div 10^5)

\* Camera::cast_ray
camera_cast_ray(self, ndc_x, ndc_y) ==
    Let(normalize(vsub(self.target, self.position)), LAMBDA forward :
    Let(normalize(cross(forward, self.up)), LAMBDA right :
    Let3(cross(right, forward),
         FMul(FMul(ndc_x, self.aspect_ratio), tan_half_fov(self.fov)),
         FMul(-ndc_y, tan_half_fov(self.fov)),
         LAMBDA up, adjusted_x, adjusted_y :
             Ray(self.position,
                 normalize(vadd(vadd(forward, vmul(right, adjusted_x)),
                                vmul(up, adjusted_y)))))))

\* fastrand::Rng, reduced to a generator of period RngPeriod: the state is
\* the last number drawn, Rng::new() picks it, Rng::f64 steps it
RngPeriod == 2^3

rng_next(s) == (5 * s + 3) % RngPeriod

\* the f64 in [0, 1) that the state s stands for
rng_f64(s) == (s * Scale) \div RngPeriod

\* whether Scene::trace jitters its samples (line 126)
jittered_from_one_sample(samples) == samples >= 1

jittered(samples) == samples > 1

\* ((i as f64 + offset) * inv) * 2.0 - 1.0
ndc(i, offset, inv) == FMul(i * Scale + offset, inv) * 2 - Scale

clamp_color(c) ==
    <<FClamp(c[1], 0, Scale), FClamp(c[2], 0, Scale), FClamp(c[3], 0, Scale)>>

\* color = color + sample (line 135)
accumulate_clamped(color, sample) == cadd(color, clamp_color(sample))

accumulate(color, sample) == cadd(color, sample)

\* the sum, the cast_ray results, the generator and the count of numbers
\* drawn after one more sample
sampled(acc, rng, sample) ==
    [color |-> accumulate(acc.color, sample), raws |-> Append(acc.raws, sample),
     rng |-> rng, draws |-> acc.draws + 2]

\* a samples loop that stops one sample short
RECURSIVE samples_loop_one_short(_, _, _, _, _, _, _, _)
samples_loop_one_short(self, camera, x, y, inv_width, inv_height, k, acc) ==
    IF k <= 1 THEN acc
    ELSE Let(rng_next(acc.rng), LAMBDA sx :
         Let(rng_next(sx), LAMBDA sy :
             samples_loop_one_short(self, camera, x, y, inv_width, inv_height, k - 1,
                 sampled(acc, sy,
                     cast_ray(self,
                              camera_cast_ray(camera,
                                              ndc(x, rng_f64(sx), inv_width),
                                              ndc(y, rng_f64(sy), inv_height)),
                              MAX_DEPTH).color))))

\* the samples loop of one pixel with k samples to go; the first number
\* drawn is offset_x, the second offset_y
RECURSIVE samples_loop(_, _, _, _, _, _, _, _)
samples_loop(self, camera, x, y, inv_width, inv_height, k, acc) ==
    IF k = 0 THEN acc
    ELSE Let(rng_next(acc.rng), LAMBDA sx :
         Let(rng_next(sx), LAMBDA sy :
             samples_loop(self, camera, x, y, inv_width, inv_height, k - 1,
                 sampled(acc, sy,
                     cast_ray(self,
                              camera_cast_ray(camera,
                                              ndc(x, rng_f64(sx), inv_width),
                                              ndc(y, rng_f64(sy), inv_height)),
                              MAX_DEPTH).color))))

\* color = color * inv_samples, then the clamp (lines 137 and 145-147)
averaged(sum, inv_samples) ==
    [color |-> clamp_color(cmul(sum.color, inv_samples)), raws |-> sum.raws,
     rng |-> sum.rng, draws |-> sum.draws]

\* the branch without jitter, from its one cast_ray result on
centered(sample, rng) ==
    [color |-> clamp_color(sample), raws |-> <<sample>>, rng |-> rng, draws |-> 0]

\* one pixel of Scene::trace (the body of the x loop): the color pushed to
\* the row, the cast_ray results behind it, the generator and the numbers drawn
pixel(self, camera, x, y, width, height, samples, rng) ==
    IF jittered(samples)
    THEN averaged(samples_loop(self, camera, x, y,
                               FDiv(Scale, width * Scale),
                               FDiv(Scale, height * Scale), samples,
                               [color |-> Black, raws |-> <<>>, rng |-> rng,
                                draws |-> 0]),
                  FDiv(Scale, samples * Scale))
    ELSE centered(cast_ray(self,
                           camera_cast_ray(camera,
                               ndc(x, Scale \div 2, FDiv(Scale, width * Scale)),
                               ndc(y, Scale \div 2, FDiv(Scale, height * Scale))),
                           MAX_DEPTH).color,
                  rng)

\* row.push(color)
pushed(acc, p) ==
    [row |-> Append(acc.row, p.color), raws |-> Append(acc.raws, p.raws),
     rng |-> p.rng, draws |-> acc.draws + p.draws]

\* the x loop of one row from column x on
RECURSIVE row_loop(_, _, _, _, _, _, _, _)
row_loop(self, camera, y, width, height, samples, x, acc) ==
    IF x >= width THEN acc
    ELSE row_loop(self, camera, y, width, height, samples, x + 1,
             pushed(acc, pixel(self, camera, x, y, width, height, samples, acc.rng)))

\* what a row task leaves: its row, the cast_ray results behind each pixel,
\* the seed of its generator and the count of numbers it drew
finished(y, seed, r) ==
    [y |-> y, row |-> r.row, raws |-> r.raws, seed |-> seed, draws |-> r.draws]

\* the closure that Scene::trace maps over the rows, for row y with the
\* generator that Rng::new() seeded with seed
row_task(self, camera, y, width, height, samples, seed) ==
    finished(y, seed,
             row_loop(self, camera, y, width, height, samples, 0,
                      [row |-> <<>>, raws |-> <<>>, rng |-> seed, draws |-> 0]))

\* the finished task of row y
TaskOf(done, y) == CHOOSE i \in 1..Len(done) : done[i].y = y

\* collect() of rayon's indexed parallel iterator: the rows by their index
collect_in_completion_order(done, height) == [i \in 1..height |-> done[i].row]

collect(done, height) == [i \in 1..height |-> done[TaskOf(done, i - 1)].row]

----------------------------------------------------------------------------
(* Scenes, cameras and rays for the CPU path: the ground plane, the blue   *)
(* sphere, the lights and the camera of main.rs, next to a mirror sphere   *)
(* under a strong light, an unlit scene and an empty one.                  *)

\* n tenths
Tenths(n) == n * (Scale \div 10)

Ground ==
    Plane(<<0, -Scale, 0>>, <<0, Scale, 0>>,
          Material(<<Tenths(5), Tenths(5), Tenths(5)>>, Tenths(8), Tenths(1), 10,
                   Tenths(1)))

BlueSphere ==
    Sphere(<<0, 0, 5 * Scale>>, Scale,
           Material(<<Tenths(2), Tenths(4), Scale>>, Tenths(7), Tenths(3), 32,
                    Tenths(1)))

MirrorSphere ==
    Sphere(<<Tenths(-5), 0, 4 * Scale>>, Scale,
           Material(<<Scale, Tenths(2), Tenths(2)>>, Tenths(3), Tenths(9), 8, Scale))

MainLights ==
    <<Light(<<3 * Scale, 2 * Scale, 5 * Scale>>, Scale),
      Light(<<-3 * Scale, 4 * Scale, 2 * Scale>>, Tenths(5))>>

StrongLights == <<Light(<<2 * Scale, 4 * Scale, 0>>, 3 * Scale)>>

Background == <<Tenths(2), Tenths(3), Tenths(5)>>

\* a material that reflects nothing
Matte == Material(<<Tenths(2), Scale, Tenths(3)>>, Tenths(6), Tenths(5), 8, 0)

White == <<Scale, Scale, Scale>>

\* one sphere and nothing else: the materials and backgrounds of the scenes
\* with a lone sphere
LoneMaterials ==
    [matte |-> Matte, blue |-> BlueSphere.material, mirror |-> MirrorSphere.material]

LoneBackgrounds == [sky |-> Background, dark |-> Black, white |-> White]

LoneSphere(material) == Sphere(<<0, 0, 5 * Scale>>, Scale, material)

\* the lone sphere without lights, by material and background
LoneScenes ==
    [lone_matte_sky    |-> <<"matte", "sky">>,
     lone_blue_sky     |-> <<"blue", "sky">>,
     lone_mirror_sky   |-> <<"mirror", "sky">>,
     lone_blue_dark    |-> <<"blue", "dark">>,
     lone_mirror_white |-> <<"mirror", "white">>]

LoneScene(name) ==
    Scene(LoneBackgrounds[LoneScenes[name][2]],
          <<LoneSphere(LoneMaterials[LoneScenes[name][1]])>>, <<>>)

\* a background brighter than 1 in two channels
Bright == <<Tenths(15), Tenths(3), 2 * Scale>>

\* a lone mirror sphere under lights
BeaconScenes ==
    [beacon        |-> Scene(Background, <<LoneSphere(MirrorSphere.material)>>,
                             MainLights),
     beacon_strong |-> Scene(Background, <<LoneSphere(MirrorSphere.material)>>,
                             StrongLights),
     beacon_bright |-> Scene(Bright, <<LoneSphere(MirrorSphere.material)>>,
                             MainLights)]

\* the ground and two spheres that overlap, one before the other, under the
\* two lights of main.rs
TrioObjects == <<Ground, BlueSphere, MirrorSphere>>

\* every order in which scene.objects can hold them
TrioOrders ==
    [trio_123 |-> <<1, 2, 3>>, trio_132 |-> <<1, 3, 2>>, trio_213 |-> <<2, 1, 3>>,
     trio_231 |-> <<2, 3, 1>>, trio_312 |-> <<3, 1, 2>>, trio_321 |-> <<3, 2, 1>>]

TrioScene(name) ==
    Scene(Background, [i \in 1..3 |-> TrioObjects[TrioOrders[name][i]]], MainLights)

SceneOf(name) ==
    CASE name = "main"   -> Scene(Background, <<Ground, BlueSphere>>, MainLights)
      [] name = "mirror" -> Scene(Background, <<Ground, MirrorSphere>>, StrongLights)
      [] name = "unlit"  -> Scene(Background, <<Ground, BlueSphere>>, <<>>)
      [] name = "empty"  -> Scene(Background, <<>>, MainLights)
      [] name \in DOMAIN LoneScenes -> LoneScene(name)
      [] name \in DOMAIN BeaconScenes -> BeaconScenes[name]
      [] name \in DOMAIN TrioOrders -> TrioScene(name)

MainCamera ==
    Camera(<<0, Scale, 0>>, <<0, Tenths(5), 5 * Scale>>, 60, FDiv(4 * Scale, 3 * Scale))

\* a camera above the scene that looks down on it: every ray through its
\* image meets the ground within a few dozen units
DownCamera ==
    Camera(<<0, 4 * Scale, 0>>, <<0, 0, 4 * Scale>>, 60, FDiv(4 * Scale, 3 * Scale))

----------------------------------------------------------------------------
(* Sphere::hit called on its own: spheres, rays from outside, from inside  *)
(* and from beyond the sphere, unit and longer directions, and parameter   *)
(* ranges that hold both roots, one of them or none.                       *)

HitSpheres ==
    [unit |-> Sphere(<<0, 0, 5 * Scale>>, Scale, BlueSphere.material),
     wide |-> Sphere(<<Tenths(5), 0, 5 * Scale>>, 2 * Scale, MirrorSphere.material)]

HitOrigins == {<<0, 0, 0>>, <<0, 0, 5 * Scale>>, <<0, 0, 9 * Scale>>}

HitDirections ==
    {<<0, 0, Scale>>, <<0, 0, 2 * Scale>>, <<0, 0, -Scale>>, <<0, Scale, 0>>,
     <<Tenths(6), 0, Tenths(8)>>, <<0, Tenths(2), Scale>>}

\* <<t_min, t_max>>
HitRanges ==
    {<<EPSILON, INFINITY>>, <<0, 5 * Scale>>, <<Tenths(45), 10 * Scale>>,
     <<EPSILON, 2 * Scale>>}

HitInit ==
    /\ h_pc = "call"
    /\ \E name \in DOMAIN HitSpheres, origin \in HitOrigins,
          direction \in HitDirections, range \in HitRanges :
         h_in = [sphere |-> name, ray |-> Ray(origin, direction),
                 t_min |-> range[1], t_max |-> range[2]]
    /\ h_out = NoHitCall
    /\ GpuIdle
    /\ CastIdle
    /\ TraceIdle
    /\ MainIdle

SphereHit ==
    /\ h_pc = "call"
    /\ h_out' = sphere_hit(HitSpheres[h_in.sphere], h_in.ray, h_in.t_min, h_in.t_max)
    /\ h_pc' = "returned"
    /\ UNCHANGED <<h_in, gpu_vars, cast_vars, trace_vars, main_vars>>

HitNext == SphereHit

SpecHit == HitInit /\ [][HitNext]_vars

----------------------------------------------------------------------------
(* Scene::cast_ray called on its own: every scene, ray and depth of the     *)
(* sets below, depths at and below zero among them.                         *)

CastScenes == {"main", "mirror", "unlit", "empty"}

CastNdc == {Tenths(-6), 0, Tenths(6)}

CastDepths == -1..MAX_DEPTH

\* where the rays aimed at a point start
AimOrigins == {<<0, 0, 0>>, <<0, Scale, 0>>, <<3 * Scale, 2 * Scale, Scale>>}

\* the ray from origin through the point target
Aimed(origin, target) == Ray(origin, normalize(vsub(target, origin)))

\* the calls through the camera of main.rs
CameraCalls ==
    {[scene |-> name, ray |-> camera_cast_ray(MainCamera, nx, ny), depth |-> depth] :
        name \in CastScenes, nx \in CastNdc, ny \in CastNdc, depth \in CastDepths}

\* the calls on a lone sphere, the ray through its center
LoneCalls ==
    {[scene |-> name, ray |-> Aimed(origin, LoneSphere(Matte).center),
      depth |-> depth] :
        name \in DOMAIN LoneScenes, origin \in AimOrigins, depth \in 1..MAX_DEPTH}

\* points of the lone sphere's disc as the origins see it
AimTargets ==
    {<<0, 0, 5 * Scale>>, <<Tenths(5), Tenths(3), 5 * Scale>>,
     <<Tenths(-4), Tenths(6), 5 * Scale>>}

\* the calls on a lone mirror sphere under lights
BeaconCalls ==
    {[scene |-> name, ray |-> Aimed(origin, target), depth |-> depth] :
        name \in DOMAIN BeaconScenes, origin \in AimOrigins, target \in AimTargets,
        depth \in 2..MAX_DEPTH}

\* origins before the spheres, above them and inside both of them
TrioOrigins ==
    {<<0, 0, 0>>, <<0, Scale, 0>>, <<0, Tenths(5), Tenths(45)>>,
     <<3 * Scale, 2 * Scale, Scale>>}

\* targets in the spheres, on the ground beside and behind them, and in the sky
TrioTargets ==
    {<<0, 0, 5 * Scale>>, <<Tenths(-5), 0, 4 * Scale>>, <<2 * Scale, -Scale, 5 * Scale>>,
     <<Tenths(-3), -Scale, 7 * Scale>>, <<0, 3 * Scale, 5 * Scale>>}

\* the calls on the three primitives in every order
TrioCalls ==
    {[scene |-> name, ray |-> Aimed(origin, target), depth |-> depth] :
        name \in DOMAIN TrioOrders, origin \in TrioOrigins, target \in TrioTargets,
        depth \in {1, MAX_DEPTH}}

CastCalls == CameraCalls \cup LoneCalls \cup BeaconCalls \cup TrioCalls

CastInit ==
    /\ c_pc = "call"
    /\ c_in \in CastCalls
    /\ c_out = NoCast
    /\ c_top = NoCast
    /\ GpuIdle
    /\ HitIdle
    /\ TraceIdle
    /\ MainIdle

CastRay ==
    /\ c_pc = "call"
    /\ c_out' = cast_ray(SceneOf(c_in.scene), c_in.ray, c_in.depth)
    /\ c_top' = cast_ray_locals(SceneOf(c_in.scene), c_in.ray, c_in.depth)
    /\ c_pc' = "returned"
    /\ UNCHANGED <<c_in, gpu_vars, hit_vars, trace_vars, main_vars>>

CastNext == CastRay

SpecCast == CastInit /\ [][CastNext]_vars

----------------------------------------------------------------------------
(* Scene::trace: the row tasks run in any order, one generator each, and   *)
(* the call returns when collect() has every row. A row task reads only    *)
(* the scene and the camera and writes only its own row, so a task is one  *)
(* step. The same arguments are then traced a second time.                 *)

TraceScenes == {"main", "mirror"}

\* <<width, height>>
TraceSizes == {<<0, 2>>, <<2, 0>>, <<1, 1>>, <<2, 2>>, <<1, 3>>}

MaxSamples == 2

TraceSamples == 0..MaxSamples

Seeds == {1, 6}

TraceInit ==
    /\ t_pc = "rows"
    /\ \E name \in TraceScenes, size \in TraceSizes, samples \in TraceSamples :
         t_in = [scene |-> name, width |-> size[1], height |-> size[2],
                 samples |-> samples]
    /\ t_call = 1
    /\ t_done = <<>>
    /\ t_grid = NoGrid
    /\ t_first = NoGrid
    /\ GpuIdle
    /\ HitIdle
    /\ CastIdle
    /\ MainIdle

Pending(y) == \A i \in 1..Len(t_done) : t_done[i].y # y

\* one row task runs to its end
RowTask ==
    /\ t_pc = "rows"
    /\ \E y \in 0..(t_in.height - 1), seed \in Seeds :
         /\ Pending(y)
         /\ t_done' = Append(t_done,
                row_task(SceneOf(t_in.scene), DownCamera, y, t_in.width,
                         t_in.height, t_in.samples, seed))
    /\ UNCHANGED <<t_pc, t_in, t_call, t_grid, t_first, gpu_vars, hit_vars, cast_vars, main_vars>>

\* collect() has every row: trace returns
Collect ==
    /\ t_pc = "rows"
    /\ Len(t_done) = t_in.height
    /\ t_grid' = [kind |-> "grid", rows |-> collect(t_done, t_in.height)]
    /\ t_pc' = "returned"
    /\ UNCHANGED <<t_in, t_call, t_done, t_first, gpu_vars, hit_vars, cast_vars, main_vars>>

SeedsOf(done, height) == [i \in 1..height |-> done[TaskOf(done, i - 1)].seed]

\* the caller traces the same arguments again
TraceAgain ==
    /\ t_pc = "returned"
    /\ t_call = 1
    /\ t_first' = [kind |-> "grid", rows |-> t_grid.rows,
                   seeds |-> SeedsOf(t_done, t_in.height)]
    /\ t_call' = 2
    /\ t_done' = <<>>
    /\ t_grid' = NoGrid
    /\ t_pc' = "rows"
    /\ UNCHANGED <<t_in, gpu_vars, hit_vars, cast_vars, main_vars>>

TraceNext == RowTask \/ Collect \/ TraceAgain

SpecTrace == TraceInit /\ [][TraceNext]_vars

----------------------------------------------------------------------------
(* main.rs: the process from its flags to its end. A frame is rendered in  *)
(* one step and counted, not computed; GpuRenderer::new, render and        *)
(* render_adaptive return Ok or a GpuError as their Result types allow,    *)
(* and the file system lets each creation and each write succeed or fail.  *)

\* the literals of main_cpu (line 36)
main_cpu_settings ==
    [width |-> 800, height |-> 600, num_frames |-> 36, samples |-> 2,
     output_file |-> "animation.gif"]

\* the locals of main_gpu (lines 226-230)
main_gpu_settings ==
    [width |-> 1920, height |-> 1080, num_frames |-> 36, samples |-> 16,
     output_file |-> "animation_gpu.gif"]

\* the scene of main_gpu: four spheres, one plane, two lights
main_gpu_counts == [num_spheres |-> 4, num_planes |-> 1, num_lights |-> 2]

\* a call of main_cpu_with_settings as it starts
main_cpu_with_settings(caller, width, height, num_frames, samples, output_file) ==
    [caller |-> caller, width |-> width, height |-> height,
     num_frames |-> num_frames, samples |-> samples, output_file |-> output_file,
     frames |-> 0, dump_failed |-> FALSE, written |-> 0]

\* what the Err arms of main_gpu call (lines 241, 317 and 337)
fallback_to_main_cpu(width, height, num_frames, samples, output_file) ==
    main_cpu_with_settings("main_gpu", main_cpu_settings.width,
                           main_cpu_settings.height, main_cpu_settings.num_frames,
                           main_cpu_settings.samples, main_cpu_settings.output_file)

fallback(width, height, num_frames, samples, output_file) ==
    main_cpu_with_settings("main_gpu", width, height, num_frames, samples,
                           output_file)

MainInit ==
    /\ m_pc = "main"
    /\ m_args = NoArgs
    /\ m_gpu = NoGpuRun
    /\ m_cpu = NoCpuRun
    /\ m_gif = NoGif
    /\ GpuIdle
    /\ HitIdle
    /\ CastIdle
    /\ TraceIdle

\* main: the flags decide the path
Main ==
    /\ m_pc = "main"
    /\ \E use_gpu \in BOOLEAN, use_adaptive \in BOOLEAN :
         /\ m_args' = [use_gpu |-> use_gpu, use_adaptive |-> use_adaptive]
         /\ IF use_gpu
            THEN m_pc' = "gpu_new" /\ UNCHANGED m_cpu
            ELSE /\ m_pc' = "cpu_frame"
                 /\ m_cpu' = main_cpu_with_settings("main_cpu",
                                 main_cpu_settings.width, main_cpu_settings.height,
                                 main_cpu_settings.num_frames,
                                 main_cpu_settings.samples,
                                 main_cpu_settings.output_file)
    /\ UNCHANGED <<m_gpu, m_gif, gpu_vars, hit_vars, cast_vars, trace_vars>>

\* an Err arm of main_gpu: the GpuError is reported and the CPU path called
Fallback(error) ==
    /\ m_gpu' = [m_gpu EXCEPT !.error = error]
    /\ m_cpu' = fallback(main_gpu_settings.width, main_gpu_settings.height,
                         main_gpu_settings.num_frames, main_gpu_settings.samples,
                         main_gpu_settings.output_file)
    /\ m_pc' = "cpu_frame"

\* GpuRenderer::new().await
GpuNew ==
    /\ m_pc = "gpu_new"
    /\ \E ok \in BOOLEAN :
         IF ok THEN m_pc' = "gpu_frame" /\ UNCHANGED <<m_gpu, m_cpu>>
         ELSE Fallback("new")
    /\ UNCHANGED <<m_args, m_gif, gpu_vars, hit_vars, cast_vars, trace_vars>>

\* the renderer call of frame frame_index
frame_call(use_adaptive) ==
    IF use_adaptive
    THEN render_adaptive(memory_info, overflow_checks,
             [op |-> "render_adaptive", width |-> Big(main_gpu_settings.width),
              height |-> Big(main_gpu_settings.height), samples |-> 0,
              target_samples |-> main_gpu_settings.samples,
              num_spheres |-> main_gpu_counts.num_spheres,
              num_planes |-> main_gpu_counts.num_planes,
              num_lights |-> main_gpu_counts.num_lights])
    ELSE render(memory_info, overflow_checks, Big(main_gpu_settings.width),
                Big(main_gpu_settings.height), main_gpu_settings.samples,
                main_gpu_counts.num_spheres, main_gpu_counts.num_planes,
                main_gpu_counts.num_lights)

\* one pass of the frame loop of main_gpu
GpuFrame ==
    /\ m_pc = "gpu_frame"
    /\ \E device_ok \in BOOLEAN : \E r \in {frame_call(m_args.use_adaptive)} :
         IF device_ok /\ r.outcome = "Ok"
         THEN /\ memory_info' = r.memory_info
              /\ m_gpu' = [m_gpu EXCEPT !.frame_index = @ + 1, !.frames = @ + 1]
              /\ m_pc' = IF m_gpu.frame_index + 1 = main_gpu_settings.num_frames
                         THEN "gpu_create" ELSE "gpu_frame"
              /\ UNCHANGED m_cpu
         ELSE /\ Fallback(IF m_args.use_adaptive THEN "render_adaptive" ELSE "render")
              /\ UNCHANGED memory_info
    /\ UNCHANGED <<m_args, m_gif, overflow_checks, g_calls, g_call, g_result, g_log,
                   g_hist, hit_vars, cast_vars, trace_vars>>

\* File::create, Encoder::new and set_repeat of main_gpu, each unwrapped
GpuCreateGif ==
    /\ m_pc = "gpu_create"
    /\ \E ok \in BOOLEAN : m_pc' = IF ok THEN "gpu_write" ELSE "panicked"
    /\ UNCHANGED <<m_args, m_gpu, m_cpu, m_gif, gpu_vars, hit_vars, cast_vars, trace_vars>>

\* one pass of the encoding loop of main_gpu: write_frame, unwrapped
GpuWriteFrame ==
    /\ m_pc = "gpu_write"
    /\ \E ok \in BOOLEAN :
         IF ~ok THEN m_pc' = "panicked" /\ UNCHANGED <<m_gpu, m_gif>>
         ELSE /\ m_gpu' = [m_gpu EXCEPT !.written = @ + 1]
              /\ IF m_gpu.written + 1 = m_gpu.frames
                 THEN /\ m_pc' = "returned"
                      /\ m_gif' = [file |-> main_gpu_settings.output_file,
                                   renderer |-> "gpu", frames |-> m_gpu.written + 1,
                                   width |-> main_gpu_settings.width,
                                   height |-> main_gpu_settings.height]
                 ELSE UNCHANGED <<m_pc, m_gif>>
    /\ UNCHANGED <<m_args, m_cpu, gpu_vars, hit_vars, cast_vars, trace_vars>>

\* the frame loop with the result of save_image unwrapped
CpuFrame_dump_unwrapped ==
    /\ m_pc = "cpu_frame"
    /\ \E dump_ok \in BOOLEAN :
         IF dump_ok
         THEN /\ m_cpu' = [m_cpu EXCEPT !.frames = @ + 1]
              /\ m_pc' = IF m_cpu.frames + 1 = m_cpu.num_frames THEN "cpu_create"
                         ELSE "cpu_frame"
         ELSE /\ m_cpu' = [m_cpu EXCEPT !.dump_failed = TRUE]
              /\ m_pc' = "panicked"
    /\ UNCHANGED <<m_args, m_gpu, m_gif, gpu_vars, hit_vars, cast_vars, trace_vars>>

\* one pass of the frame loop of main_cpu_with_settings: trace, the image,
\* the dump by save_image whose result is dropped, the push
CpuFrame ==
    /\ m_pc = "cpu_frame"
    /\ \E dump_ok \in BOOLEAN :
         m_cpu' = [m_cpu EXCEPT !.frames = @ + 1,
                                !.dump_failed = @ \/ ~dump_ok]
    /\ m_pc' = IF m_cpu.frames + 1 = m_cpu.num_frames THEN "cpu_create"
               ELSE "cpu_frame"
    /\ UNCHANGED <<m_args, m_gpu, m_gif, gpu_vars, hit_vars, cast_vars, trace_vars>>

\* File::create, Encoder::new and set_repeat of main_cpu_with_settings, each
\* unwrapped
CpuCreateGif ==
    /\ m_pc = "cpu_create"
    /\ \E ok \in BOOLEAN : m_pc' = IF ok THEN "cpu_write" ELSE "panicked"
    /\ UNCHANGED <<m_args, m_gpu, m_cpu, m_gif, gpu_vars, hit_vars, cast_vars, trace_vars>>

\* one pass of the encoding loop of main_cpu_with_settings
CpuWriteFrame ==
    /\ m_pc = "cpu_write"
    /\ \E ok \in BOOLEAN :
         IF ~ok THEN m_pc' = "panicked" /\ UNCHANGED <<m_cpu, m_gif>>
         ELSE /\ m_cpu' = [m_cpu EXCEPT !.written = @ + 1]
              /\ IF m_cpu.written + 1 = m_cpu.frames
                 THEN /\ m_pc' = "returned"
                      /\ m_gif' = [file |-> m_cpu.output_file, renderer |-> "cpu",
                                   frames |-> m_cpu.written + 1,
                                   width |-> m_cpu.width, height |-> m_cpu.height]
                 ELSE UNCHANGED <<m_pc, m_gif>>
    /\ UNCHANGED <<m_args, m_gpu, gpu_vars, hit_vars, cast_vars, trace_vars>>

MainNext ==
    \/ Main
    \/ GpuNew
    \/ GpuFrame
    \/ GpuCreateGif
    \/ GpuWriteFrame
    \/ CpuFrame
    \/ CpuCreateGif
    \/ CpuWriteFrame

SpecMain == MainInit /\ [][MainNext]_vars

----------------------------------------------------------------------------
(* Claims about the GPU backend, checked under SpecGpu.                    *)

\* the requirement of section 4.5 as an unbounded byte count, in units of 2^-20 MB
TrueRequirement(c) ==
    BigAdd(BigMul(Big(2), BigMul(BigMul(c.width, c.height), Big(PIXEL_BYTES))),
           Big(size_of_RenderParams + size_of_GpuCamera
               + c.num_spheres * size_of_GpuSphere
               + c.num_planes * size_of_GpuPlane
               + c.num_lights * size_of_GpuLight))

\* C1: a render call whose true requirement exceeds 2048 MB returns
\* Err(OutOfMemory), having created no buffer and submitted no dispatch.
C1_GuardRejectsOverBudget ==
    (g_call.op = "render" /\ BigLess(MAX_MEMORY, TrueRequirement(g_call)))
        => /\ g_result.outcome = "OutOfMemory"
           /\ g_log[1].buffers = 0
           /\ g_log[1].dispatches = 0

\* C2: render(100000, 100000) with no spheres, planes or lights returns
\* Err(OutOfMemory) carrying the true requirement, 2 * 100000 * 100000 * 16
\* bytes plus the two uniform buffers.
C2_RequestedMbIsTrueRequirement ==
    (/\ g_call.op = "render"
     /\ g_call.width = Big(100000) /\ g_call.height = Big(100000)
     /\ g_call.num_spheres = 0 /\ g_call.num_planes = 0 /\ g_call.num_lights = 0)
        => /\ g_result.outcome = "OutOfMemory"
           /\ g_result.requested_mb = TrueRequirement(g_call)

\* C3: when every step succeeds, render_adaptive with target_samples >= 1
\* returns the image of the render call made with samples = target_samples.
C3_AdaptiveReturnsTargetImage ==
    (/\ g_call.op = "render_adaptive"
     /\ g_call.target_samples >= 1
     /\ g_result.outcome = "Ok")
        => g_result.image = RenderedImage(g_call.width, g_call.height,
                                          g_call.target_samples)

RenderSteps(log) == SelectSeq(log, LAMBDA e : e.ev = "render")

Callbacks(log) == SelectSeq(log, LAMBDA e : e.ev = "callback")

\* C4: the sample counts render_adaptive renders are strictly increasing, and
\* each render step is preceded by exactly one progress_callback(samples,
\* target_samples).
C4_StepsStrictlyIncreasing ==
    g_call.op = "render_adaptive"
        => /\ \A i \in 1..Len(RenderSteps(g_log)) - 1 :
                RenderSteps(g_log)[i].samples < RenderSteps(g_log)[i + 1].samples
           /\ Len(Callbacks(g_log)) = Len(RenderSteps(g_log))
           /\ \A i \in 1..Len(g_log) :
                g_log[i].ev = "render"
                    => /\ i > 1
                       /\ g_log[i - 1] = CallbackEvent(g_log[i].samples,
                                                       g_call.target_samples)

RECURSIVE BigSum(_)
BigSum(h) == IF h = <<>> THEN <<>> ELSE BigAdd(h[1], BigSum(Tail(h)))

RECURSIVE BigMaxOf(_)
BigMaxOf(h) == IF h = <<>> THEN <<>> ELSE BigMax(h[1], BigMaxOf(Tail(h)))

LastOf(h) == IF h = <<>> THEN <<>> ELSE h[Len(h)]

\* C10 as stated: after successful render calls total_allocated_mb is the sum
\* of the per-call requirements and peak_allocated_mb their maximum.
C10_TotalIsCumulative ==
    g_result.outcome # "Panic"
        => /\ memory_info.total_allocated_mb = BigSum(g_hist)
           /\ memory_info.peak_allocated_mb = BigMaxOf(g_hist)

\* C10 as amended: after successful render calls total_allocated_mb is the
\* requirement of the most recent one (0 before the first) and
\* peak_allocated_mb is the maximum requirement seen so far.
C10_TotalIsLastPeakIsMax ==
    g_result.outcome # "Panic"
        => /\ memory_info.total_allocated_mb = LastOf(g_hist)
           /\ memory_info.peak_allocated_mb = BigMaxOf(g_hist)

\* two successful render calls, the second needing less than the first
C10_Witness ==
    /\ g_result.outcome = "Ok"
    /\ Len(g_hist) >= 2
    /\ BigLess(memory_info.total_allocated_mb, memory_info.peak_allocated_mb)
    /\ BigLess(<<>>, memory_info.total_allocated_mb)

\* memory_info of a new renderer
FreshInfo == [total_allocated_mb |-> <<>>, peak_allocated_mb |-> <<>>]

\* the calls that make up the histories below: a small frame and a large one
HistoryCalls == {<<Big(1920), Big(1080)>>, <<Big(8192), Big(6144)>>}

\* memory_info after one more render call on a renderer that had m
AfterCall(m) ==
    {render(m, FALSE, d[1], d[2], 16, 0, 0, 0).memory_info : d \in HistoryCalls}

\* memory_info of renderers with every history of up to two such calls
HistoryInfos ==
    {FreshInfo} \cup AfterCall(FreshInfo)
                \cup UNION {AfterCall(m) : m \in AfterCall(FreshInfo)}

\* C20: what a render call returned on this renderer, after the calls it
\* had served, is what the call returns on a renderer with any other
\* history, given the same width, height and element counts; and it is
\* OutOfMemory exactly when the requirement of these arguments exceeds the
\* budget: the decision never reads memory_info.
C20_DecisionIgnoresHistory ==
    (g_call.op = "render" /\ g_result.outcome # "none") =>
        /\ \A m \in HistoryInfos :
              render(m, overflow_checks, g_call.width, g_call.height,
                     g_call.samples, g_call.num_spheres, g_call.num_planes,
                     g_call.num_lights).outcome = g_result.outcome
        /\ g_result.outcome = "OutOfMemory" <=>
              /\ exceeds_budget(calculate_memory_usage(g_call.width,
                     g_call.height, g_call.num_spheres, g_call.num_planes,
                     g_call.num_lights))
              /\ ~(overflow_checks
                   /\ output_size(g_call.width, g_call.height).overflow)

\* a renderer that had accepted a call of 1.5 GB accepted the same call again
C20_Witness ==
    /\ g_calls = 2
    /\ g_call.op = "render"
    /\ g_call.width = Big(8192) /\ g_call.height = Big(6144)
    /\ g_result.outcome = "Ok"
    /\ Len(g_hist) = 2
    /\ g_hist[1] = g_hist[2]
    /\ Cardinality(HistoryInfos) = 4
    /\ memory_info \in HistoryInfos \ {FreshInfo}

\* g work-groups of 8 cover n and the last of them is not beyond n:
\* 8 * g >= n and 8 * (g - 1) < n, that is g = ceil(n / 8)
CoversExactly(g, n) ==
    /\ ~BigLess(BigMul(g, Big(WORKGROUP_SIZE)), n)
    /\ BigLess(BigMul(g, Big(WORKGROUP_SIZE)), BigAdd(n, Big(WORKGROUP_SIZE)))

\* C19: for every width and height, a render call that goes past the memory
\* guard reaches its dispatch, and the dispatch has gx = ceil(width / 8) by
\* gy = ceil(height / 8) work-groups: every pixel is covered and no
\* work-group lies wholly outside the grid.
C19_DispatchCoversGrid ==
    \A n \in 1..Len(g_log) :
        (g_log[n].ev = "render" /\ g_log[n].buffers > 0) =>
            /\ g_log[n].dispatches = 1
            /\ CoversExactly(g_log[n].groups[1], g_call.width)
            /\ CoversExactly(g_log[n].groups[2], g_call.height)

\* the two relations between the statistics and the budget
InfoWithinBudget ==
    /\ ~exceeds_budget(memory_info.peak_allocated_mb)
    /\ ~BigLess(memory_info.peak_allocated_mb, memory_info.total_allocated_mb)

\* a call that returns Err(OutOfMemory) leaves both fields as they were
RejectedCallKeepsInfo ==
    g_result'.outcome = "OutOfMemory" => memory_info' = memory_info

\* C21: a render call that returns Err(OutOfMemory), made directly or as a
\* step of render_adaptive, leaves total_allocated_mb and peak_allocated_mb
\* at their values from before the call; and after any sequence of calls
\* peak_allocated_mb <= 2048 and peak_allocated_mb >= total_allocated_mb.
C21_RejectedCallLeavesInfo ==
    [][RejectedCallKeepsInfo]_vars /\ []InfoWithinBudget

\* a rejected render call on a renderer whose earlier call had been
\* accepted: the statistics still show the accepted call
C21_Witness ==
    /\ g_calls = 2
    /\ g_call.op = "render"
    /\ g_result.outcome = "OutOfMemory"
    /\ exceeds_budget(g_result.requested_mb)
    /\ g_hist # <<>>
    /\ memory_info.total_allocated_mb = g_hist[Len(g_hist)]
    /\ BigLess(<<>>, memory_info.total_allocated_mb)

\* a render step of the last render_adaptive call returned Err
StepFailed(i) == g_log[i].ev = "render" /\ g_log[i].outcome = "OutOfMemory"

\* C22: render_adaptive with target_samples = 0 returns Ok with the black
\* height x width grid, having called neither render nor progress_callback;
\* and when a render step returns an error, that step is the last thing
\* render_adaptive did and the call returns that step's error.
C22_AdaptiveZeroAndErrors ==
    g_call.op = "render_adaptive" =>
        /\ g_call.target_samples = 0 =>
              /\ g_result.outcome = "Ok"
              /\ g_result.image = BlackImage(g_call.width, g_call.height)
              /\ g_log = <<>>
        /\ \A i \in 1..Len(g_log) :
              StepFailed(i) =>
                  /\ i = Len(g_log)
                  /\ g_result.outcome = "OutOfMemory"
                  /\ g_result.image = NoImage
                  /\ g_result.requested_mb =
                         calculate_memory_usage(g_call.width, g_call.height,
                             g_call.num_spheres, g_call.num_planes,
                             g_call.num_lights)

\* a call with four more steps to go whose first step was rejected
C22_Witness ==
    /\ g_call.op = "render_adaptive"
    /\ g_call.target_samples = 16
    /\ g_result.outcome = "OutOfMemory"
    /\ Len(g_log) = 2
    /\ g_log[1] = CallbackEvent(1, 16)
    /\ StepFailed(2)

\* a call with target_samples = 0, made after another call
C22_WitnessZeroTarget ==
    /\ g_calls = 2
    /\ g_call.op = "render_adaptive"
    /\ g_call.target_samples = 0
    /\ g_result.outcome = "Ok"
    /\ g_log = <<>>

----------------------------------------------------------------------------
(* Claims about Sphere::hit, checked under SpecHit.                        *)

HitRoots == sphere_roots(HitSpheres[h_in.sphere], h_in.ray)

InRange(t) == h_in.t_min <= t /\ t <= h_in.t_max

\* the roots of the quadratic that lie within [t_min, t_max]
RootsInRange ==
    IF HitRoots.discriminant < 0 THEN {}
    ELSE {t \in {HitRoots.first, HitRoots.second} : InRange(t)}

\* C11: with real roots r1 <= r2, Sphere::hit returns the record of r1 if r1
\* is within [t_min, t_max], else that of r2 if r2 is, else none; a returned
\* t is the smallest root within the range and its point is the ray at t;
\* with a negative discriminant it returns none.
C11_SmallestRootInRange ==
    h_pc = "returned" =>
        /\ HitRoots.discriminant < 0 => ~h_out.hit
        /\ HitRoots.discriminant >= 0 =>
              /\ HitRoots.first <= HitRoots.second
              /\ h_out.hit <=> RootsInRange # {}
              /\ h_out.hit =>
                    /\ h_out.t \in RootsInRange
                    /\ \A t \in RootsInRange : h_out.t <= t
                    /\ h_out.t = IF InRange(HitRoots.first) THEN HitRoots.first
                                 ELSE HitRoots.second
                    /\ h_out.point = at(h_in.ray, h_out.t)

\* a ray that starts inside the sphere: the smaller root is behind the
\* origin and the larger one is returned
C11_Witness ==
    /\ h_pc = "returned"
    /\ HitRoots.discriminant > 0
    /\ HitRoots.first < h_in.t_min
    /\ h_out.hit
    /\ h_out.t = HitRoots.second

\* both roots within the range, the smaller one returned
C11_WitnessBothInRange ==
    /\ h_pc = "returned"
    /\ HitRoots.discriminant > 0
    /\ Cardinality(RootsInRange) = 2
    /\ h_out.hit
    /\ h_out.t = HitRoots.first

----------------------------------------------------------------------------
(* Claims about Scene::cast_ray, checked under SpecCast.                   *)

\* C5: cast_ray called with depth <= 0 returns exactly the color (0, 0, 0),
\* whatever the ray and the scene, and does so in its one invocation without
\* a closest-hit scan, a hit call or a visit to a light.
C5_ExhaustedDepthIsBlack ==
    (c_pc = "returned" /\ c_in.depth <= 0) =>
        /\ c_out.color = Black
        /\ c_out.calls = 1
        /\ c_out.scans = 0
        /\ c_out.tests = 0
        /\ c_out.lights = 0

\* depth 0 in the scene of main.rs, whose background, objects and lights
\* would all have colored the ray
C5_Witness ==
    /\ c_pc = "returned"
    /\ c_in.depth = 0
    /\ c_in.scene = "main"
    /\ c_out.color = Black

\* a call on a lone sphere without lights, at the depth trace uses
LoneCall ==
    /\ c_pc = "returned"
    /\ c_in.scene \in DOMAIN LoneScenes
    /\ c_in.depth = MAX_DEPTH

\* C12 as stated: with a single sphere and no lights, the ray through the
\* center of the sphere comes back black, for every material and background.
C12_UnlitSphereIsBlack == LoneCall => c_out.color = Black

\* C12, amended: with a single sphere and no lights, the ray through the
\* center of the sphere visits no light and has no diffuse or specular term;
\* it comes back as background_color * reflectivity, the color its reflected
\* ray finds behind it, which is black when the material reflects nothing.
C12_UnlitSphereReflectsBackground ==
    LoneCall =>
        LET self == SceneOf(c_in.scene)
            material == self.objects[1].material
        IN  /\ c_out.lights = 0
            /\ c_out.color = cmul(self.background_color, material.reflectivity)
            /\ material.reflectivity = 0 => c_out.color = Black /\ c_out.calls = 1
            /\ material.reflectivity > 0 => c_out.calls = 2 /\ c_out.scans = 2

\* the lone sphere of the blue material before the sky: a tenth of the sky
C12_Witness ==
    /\ LoneCall
    /\ c_in.scene = "lone_blue_sky"
    /\ c_out.color = cmul(Background, Tenths(1))
    /\ c_out.color # Black

\* the call hit a material of reflectivity 1.0 and the ray reflected there
\* meets no primitive
MirrorToBackground ==
    /\ c_pc = "returned"
    /\ c_in.depth = MAX_DEPTH
    /\ c_top.scanned
    /\ c_top.closest_hit.hit
    /\ c_top.closest_hit.material.reflectivity = Scale
    /\ \A i \in 1..Len(SceneOf(c_in.scene).objects) :
         ~hit(SceneOf(c_in.scene).objects[i],
              reflect_ray(c_top.closest_hit, c_in.ray), EPSILON, INFINITY).hit

\* C13: a primary ray that hits a sphere of reflectivity 1.0 and whose
\* reflected ray hits nothing returns the sum of the lights loop plus the
\* whole background_color, channel by channel, with no clamp in between.
C13_MirrorAddsFullBackground ==
    MirrorToBackground =>
        /\ c_out.color = cadd(c_top.local.color, SceneOf(c_in.scene).background_color)
        /\ c_out.calls = 2

\* the mirror before the bright background, lit: the local sum is not black
\* and a channel of the result is above 1
C13_Witness ==
    /\ MirrorToBackground
    /\ c_in.scene = "beacon_bright"
    /\ c_top.local.color # Black
    /\ \E k \in 1..3 : c_out.color[k] > Scale + c_top.local.color[k]

\* a call that went past the depth test
Scanned == c_pc = "returned" /\ c_top.scanned

\* the first intersection of every primitive with the ray of the call, for
\* the primitives that have one at t >= EPSILON
FirstHits ==
    LET objects == SceneOf(c_in.scene).objects
    IN  {hit(objects[i], c_in.ray, EPSILON, INFINITY).t :
            i \in {j \in 1..Len(objects) :
                     hit(objects[j], c_in.ray, EPSILON, INFINITY).hit}}

\* C15: in whatever order scene.objects holds the primitives, the hit that
\* the closest-hit scan of cast_ray selects has the smallest first
\* intersection parameter of all primitives, and cast_ray takes its
\* background branch exactly when no primitive has an intersection at
\* t >= EPSILON.
C15_ClosestHitIsMinimum ==
    Scanned =>
        /\ c_top.closest_hit.hit <=> FirstHits # {}
        /\ c_top.closest_hit.hit =>
              /\ c_top.closest_hit.t \in FirstHits
              /\ \A t \in FirstHits : c_top.closest_hit.t <= t
        /\ ~c_top.closest_hit.hit =>
              /\ c_out.color = SceneOf(c_in.scene).background_color
              /\ c_out.calls = 1

\* three primitives on the ray, the closest of them neither first nor last
\* in scene.objects
C15_Witness ==
    /\ Scanned
    /\ c_in.scene \in DOMAIN TrioOrders
    /\ Cardinality(FirstHits) = 3
    /\ c_top.closest_hit.hit
    /\ c_top.closest_hit.t =
         hit(SceneOf(c_in.scene).objects[2], c_in.ray, EPSILON, INFINITY).t
    /\ \A t \in FirstHits : c_top.closest_hit.t <= t

\* a call whose ray hit a primitive: its lights loop has run
Shaded == Scanned /\ c_top.closest_hit.hit

\* some primitive, wherever it is in scene.objects, reports a hit on the
\* shadow ray from the hit point to light i within
\* [EPSILON, distance_to_light - EPSILON]
Occluded(i) ==
    LET self  == SceneOf(c_in.scene)
        point == c_top.closest_hit.point
        light == self.lights[i]
    IN  \E j \in 1..Len(self.objects) :
            hit(self.objects[j], shadow_ray_to(point, light.position), EPSILON,
                light_distance(point, light.position) - EPSILON).hit

\* the diffuse and specular terms of the lights from i on that are not occluded
RECURSIVE UnoccludedSum(_)
UnoccludedSum(i) ==
    IF i > Len(SceneOf(c_in.scene).lights) THEN Black
    ELSE IF Occluded(i) THEN UnoccludedSum(i + 1)
    ELSE cadd(light_term(c_top.closest_hit, c_in.ray, SceneOf(c_in.scene).lights[i]),
              UnoccludedSum(i + 1))

\* C16: at a hit, each light adds its diffuse and specular terms exactly
\* when no primitive of scene.objects, in any position, is hit by the shadow
\* ray within [EPSILON, distance_to_light - EPSILON]; the color after the
\* lights loop is the sum of the terms of the lights that are not occluded,
\* each term what that light gives on its own.
C16_EachLightShadowedAlone ==
    Shaded =>
        /\ \A i \in 1..Len(SceneOf(c_in.scene).lights) :
              (\E n \in 1..Len(c_top.local.lit) : c_top.local.lit[n] = i)
                  <=> ~Occluded(i)
        /\ c_top.local.color = UnoccludedSum(1)

\* the first light is occluded by a primitive that is not the first of
\* scene.objects, the second light is not, and its term is the color
C16_Witness ==
    /\ Shaded
    /\ c_in.scene \in DOMAIN TrioOrders
    /\ c_top.local.lit = <<2>>
    /\ ~hit(SceneOf(c_in.scene).objects[1],
            shadow_ray_to(c_top.closest_hit.point,
                       SceneOf(c_in.scene).lights[1].position),
            EPSILON,
            light_distance(c_top.closest_hit.point,
                           SceneOf(c_in.scene).lights[1].position) - EPSILON).hit
    /\ c_top.local.color =
         light_term(c_top.closest_hit, c_in.ray, SceneOf(c_in.scene).lights[2])
    /\ c_top.local.color # Black

\* the levels a call of depth d can descend
Levels(d) == IF d > 0 THEN d ELSE 0

\* C17: a call cast_ray(ray, d) returns after a chain of invocations, one
\* recursive call per invocation at most and none behind a miss or a
\* material that reflects nothing; each level is one deeper, so the chain
\* has at most d closest-hit scans and d + 1 invocations, and when it ends
\* at the depth test it has exactly that many. With MAX_DEPTH = 3 that is
\* at most 3 scans and 4 invocations.
C17_RecursionIsBounded ==
    c_pc = "returned" =>
        /\ 1 <= c_out.calls /\ c_out.calls <= Levels(c_in.depth) + 1
        /\ c_out.scans <= Levels(c_in.depth)
        /\ c_out.calls \in {c_out.scans, c_out.scans + 1}
        /\ c_out.calls = c_out.scans + 1 => c_out.calls = Levels(c_in.depth) + 1
        /\ c_in.depth <= MAX_DEPTH => c_out.calls <= 4 /\ c_out.scans <= 3
        /\ c_top.scanned =>
              (c_out.calls >= 2 <=>
                  /\ c_top.closest_hit.hit
                  /\ c_top.closest_hit.material.reflectivity > 0)

\* every reflected ray met another reflective surface: three scans, and the
\* fourth invocation ended at the depth test
C17_Witness ==
    /\ c_pc = "returned"
    /\ c_in.depth = MAX_DEPTH
    /\ c_out.scans = 3
    /\ c_out.calls = 4

----------------------------------------------------------------------------
(* Claims about Scene::trace, checked under SpecTrace.                     *)

Returned == t_pc = "returned"

\* C6: trace returns exactly height rows of exactly width colors, and under
\* every order in which the row tasks finish the row at index y is the row
\* that the task of image row y computed: no row is moved, lost or repeated.
C6_RowsKeepTheirIndex ==
    Returned =>
        /\ Len(t_grid.rows) = t_in.height
        /\ Len(t_done) = t_in.height
        /\ \A y \in 0..(t_in.height - 1) :
             /\ Len(t_grid.rows[y + 1]) = t_in.width
             /\ \E i \in 1..Len(t_done) :
                  t_done[i].y = y /\ t_grid.rows[y + 1] = t_done[i].row

\* the task of a later row finished first, with a row unlike the next one's
C6_Witness ==
    /\ Returned
    /\ t_in.height >= 2
    /\ t_done[1].y > t_done[2].y
    /\ t_done[1].row # t_done[2].row

\* C7: with samples <= 1 no row task draws a random number, and a second
\* trace of the same scene, camera, width and height returns the grid of the
\* first, whatever the seeds and the order of the row tasks.
C7_UnjitteredTraceRepeats ==
    (t_pc # "idle" /\ t_in.samples <= 1) =>
        /\ \A i \in 1..Len(t_done) : t_done[i].draws = 0
        /\ (Returned /\ t_call = 2) => t_grid.rows = t_first.rows

\* a second trace with samples = 1 whose generators had other seeds and whose
\* rows finished in the reverse order
C7_Witness ==
    /\ Returned
    /\ t_call = 2
    /\ t_in.samples = 1
    /\ t_in.width > 0
    /\ t_in.height >= 2
    /\ SeedsOf(t_done, t_in.height) # t_first.seeds
    /\ t_done[1].y > t_done[2].y
    /\ t_grid.rows = t_first.rows

RECURSIVE ColorSum(_)
ColorSum(colors) ==
    IF colors = <<>> THEN Black ELSE cadd(Head(colors), ColorSum(Tail(colors)))

InUnit(c) == \A k \in 1..3 : 0 <= c[k] /\ c[k] <= Scale

\* the mean of the cast_ray results behind a pixel, clamped once
ClampedMean(raws) ==
    clamp_color(cmul(ColorSum(raws), FDiv(Scale, Len(raws) * Scale)))

\* C8: every channel of every pixel that trace produces lies in [0, 1], and
\* the pixel is the clamp of the mean of its unclamped cast_ray results: the
\* clamp is applied once, to the average.
C8_PixelsClampedOnce ==
    /\ \A i \in 1..Len(t_done) : \A x \in 1..Len(t_done[i].row) :
         /\ InUnit(t_done[i].row[x])
         /\ Len(t_done[i].raws[x]) >= 1
         /\ t_done[i].row[x] = ClampedMean(t_done[i].raws[x])
    /\ Returned =>
         \A y \in 1..Len(t_grid.rows) : \A x \in 1..Len(t_grid.rows[y]) :
             InUnit(t_grid.rows[y][x])

\* a pixel of several samples, one of them above 1 in a channel and one
\* below, whose mean was clamped
C8_Witness ==
    \E i \in 1..Len(t_done) : \E x \in 1..Len(t_done[i].row) :
        /\ Len(t_done[i].raws[x]) > 1
        /\ \E k \in 1..3 :
             /\ \E n \in 1..Len(t_done[i].raws[x]) : t_done[i].raws[x][n][k] > Scale
             /\ \E n \in 1..Len(t_done[i].raws[x]) : t_done[i].raws[x][n][k] < Scale
             /\ t_done[i].row[x][k] = Scale

\* the state of a generator n draws after its seed
RECURSIVE Draw(_, _)
Draw(seed, n) == IF n = 0 THEN seed ELSE rng_next(Draw(seed, n - 1))

\* the color along the primary ray of pixel (x, y) with the offsets ox, oy
PrimaryColor(x, y, ox, oy) ==
    cast_ray(SceneOf(t_in.scene),
             camera_cast_ray(DownCamera,
                             ndc(x, ox, FDiv(Scale, t_in.width * Scale)),
                             ndc(y, oy, FDiv(Scale, t_in.height * Scale))),
             MAX_DEPTH).color

\* sample k of pixel x in the row of task d: the primary ray whose offsets
\* are the next two numbers of the row's generator
JitteredSample(d, x, k) ==
    PrimaryColor(x, d.y,
                 rng_f64(Draw(d.seed, 2 * (x * t_in.samples + k) + 1)),
                 rng_f64(Draw(d.seed, 2 * (x * t_in.samples + k) + 2)))

\* C18: with samples <= 1, samples = 0 among them, every pixel is the clamp
\* of one primary ray through the pixel center and no number is drawn; with
\* samples > 1 every pixel has exactly `samples` primary rays, each with
\* the next two numbers of the row's generator as its offsets, and is the
\* clamp of their sum times 1/samples. Stated of the row task that finished
\* last, which every row task is when it finishes.
C18_RaysPerPixel ==
    t_done # <<>> =>
        LET d == t_done[Len(t_done)]
        IN  /\ Len(d.row) = t_in.width
            /\ d.draws = IF t_in.samples > 1 THEN 2 * t_in.samples * t_in.width ELSE 0
            /\ \A x \in 0..(t_in.width - 1) :
                  IF t_in.samples > 1
                  THEN /\ Len(d.raws[x + 1]) = t_in.samples
                       /\ \A k \in 0..(t_in.samples - 1) :
                             d.raws[x + 1][k + 1] = JitteredSample(d, x, k)
                       /\ d.row[x + 1] =
                             clamp_color(cmul(ColorSum(d.raws[x + 1]),
                                              FDiv(Scale, t_in.samples * Scale)))
                  ELSE /\ d.raws[x + 1] =
                             <<PrimaryColor(x, d.y, Scale \div 2, Scale \div 2)>>
                       /\ d.row[x + 1] = clamp_color(d.raws[x + 1][1])

\* a row of two pixels with two samples each, the two samples of each
\* pixel unlike each other
C18_Witness ==
    /\ t_in.samples = 2
    /\ \E i \in 1..Len(t_done) :
         /\ Len(t_done[i].row) = 2
         /\ t_done[i].draws = 8
         /\ t_done[i].raws[1][1] # t_done[i].raws[1][2]
         /\ t_done[i].raws[2][1] # t_done[i].raws[2][2]

\* a row of two pixels traced with samples = 0: one centered ray each
C18_WitnessNoSamples ==
    /\ t_in.samples = 0
    /\ \E i \in 1..Len(t_done) :
         /\ Len(t_done[i].row) = 2
         /\ t_done[i].draws = 0
         /\ Len(t_done[i].raws[1]) = 1

----------------------------------------------------------------------------
(* Claims about the orchestration, checked under SpecMain.                 *)

GpuFailed == m_gpu.error # "none"

\* main_cpu_with_settings was called by the Err arm with the locals of main_gpu
FellBack ==
    /\ m_cpu.caller = "main_gpu"
    /\ m_cpu.width = main_gpu_settings.width
    /\ m_cpu.height = main_gpu_settings.height
    /\ m_cpu.num_frames = main_gpu_settings.num_frames
    /\ m_cpu.samples = main_gpu_settings.samples
    /\ m_cpu.output_file = main_gpu_settings.output_file

\* the animation of the fallback: num_frames frames, all from the CPU
CpuAnimation ==
    /\ m_gif.file = main_gpu_settings.output_file
    /\ m_gif.renderer = "cpu"
    /\ m_gif.frames = main_gpu_settings.num_frames

\* C9 as stated: after a GpuError of new, render or render_adaptive the CPU
\* path runs with the same settings, no GPU frame is encoded, and the run
\* ends with an animation of num_frames CPU frames, never in a failure of
\* the process.
C9_FallbackNeverFails ==
    GpuFailed =>
        /\ FellBack
        /\ m_gpu.written = 0
        /\ m_pc # "panicked"
        /\ (m_pc = "returned" => CpuAnimation)

Ended == m_pc = "returned" \/ m_pc = "panicked"

\* C9, amended: after a GpuError of new, render or render_adaptive the CPU
\* path runs with the same settings and no GPU frame is encoded; the run
\* never stops short of an end, its loops are bounded by num_frames, and it
\* ends either with an animation of num_frames CPU frames or, when the GIF
\* file cannot be created or written, in the panic of an unwrap of
\* main_cpu_with_settings after all its frames were rendered.
C9_FallbackRunsCpuPath ==
    GpuFailed =>
        /\ FellBack
        /\ m_gpu.written = 0
        /\ m_cpu.written <= m_cpu.frames
        /\ m_cpu.frames <= m_cpu.num_frames
        /\ (Ended \/ ENABLED MainNext)
        /\ (m_pc = "returned" => CpuAnimation)
        /\ (m_pc = "panicked" =>
                m_cpu.frames = m_cpu.num_frames /\ m_gif = NoGif)

\* render failed at a frame after the first, and the fallback saved its
\* animation
C9_Witness ==
    /\ m_gpu.error = "render"
    /\ m_gpu.frames > 0
    /\ m_pc = "returned"
    /\ CpuAnimation

C19_WrappedDispatch ==
    /\ ~overflow_checks
    /\ g_call.op = "render"
    /\ g_call.width = <<252, 255, 255, 255>>
    /\ g_log[1].dispatches = 1
    /\ g_log[1].groups[1] = <<>>

====
